---- MODULE Spec2Model ----
(***************************************************************************)
(* Pass search engine of the satellite tracker (src/script.js):            *)
(* predictPasses (coarse 60 s scan) and findBestPassDetails (5 s fine      *)
(* refinement), run over an arbitrary external propagator.                 *)
(*                                                                         *)
(* Time is in milliseconds, as in the code.  An angle sample is a small    *)
(* integer: elevation in milliradians (the propagator's look angle is in   *)
(* radians), off-nadir and sun elevation in degrees.  The propagator is a  *)
(* deterministic function of the instant: a sample drawn at a coarse       *)
(* instant is remembered (coarseSeen) and read again when the fine loop    *)
(* reaches the same instant.                                               *)
(***************************************************************************)
EXTENDS Integers, Sequences, FiniteSets, TLC

\* ---------------------------------------------------------------- bounds
\* Search horizon in coarse steps (stands for maxDays * 1440).
MaxSteps == 3
\* Largest `limit` argument tried.
MaxLimit == 2

\* ------------------------------------------------------ program constants
stepSeconds == 60
fineStepMs == 5000

\* t += stepSeconds * 1000
StepMs == stepSeconds * 1000

\* parseInt of a field without digits, as a constraint: NaN
NaN == -999999999

\* a <= b in JavaScript: false when either side is NaN
Leq(a, b) == a /= NaN /\ b /= NaN /\ a <= b

\* new Date().getTime() at the call
StartTimes == {86400000}

\* The values a sample takes: elevation at or above the horizon, off-nadir
\* angles on both sides of a constraint, sun at or above the horizon.
Elevations == {0, 1}
OffNadirs == {1, 2}
SunElevations == {0, 1}

\* The maxOffNadir constraints tried.
Constraints == {1, 2}

\* lookAngles.elevation * (180 / Math.PI): milliradians to millidegrees
RadToDeg(el) == (el * 180000) \div 3142

\* bestDetails = null
Null == [startTime |-> -1, maxElevation |-> 0, minOffNadir |-> 0,
         sunElevationAtMax |-> 0]

\* What one evaluation of a sample yields: satellite.propagate gives a
\* position or none (a result whose .position is falsy, which is what the
\* code tests); with a position, look angles, off-nadir, sun elevation.
NoPosition == [position |-> FALSE, elevation |-> 0, offNadir |-> 0, sun |-> 0]

VARIABLES
    pc,            \* "coarse", "fine", "done": position in predictPasses
    startTime,     \* now.getTime()
    maxOffNadir,   \* argument
    limit,         \* argument
    t,             \* coarse loop variable (offset from startTime)
    inPass,
    passStartTime,
    passes,        \* the accumulator returned
    ft,            \* fine loop variable (absolute instant)
    startMs,       \* findBestPassDetails arguments
    endMs,
    atEnd,         \* the fine call is the one after the coarse loop
    bestDetails,
    cur,           \* the coarse sample evaluated last
    coarseSeen,    \* coarse samples of the window in progress, by instant
    calls,         \* history: the (startMs, endMs) of every Phase 2 call
    seenOff,       \* history: off-nadir of this call's samples above horizon
    altOk,         \* history: some sample above horizon met the filter
    missed,        \* history: some sample so far had no position
    lateBest,      \* history: bestDetails is a sample taken after a miss
    horizon,       \* argument maxDays, counted in coarse steps (days * 1440)
    peak,          \* history: the largest elevation of this call's samples
    elevations     \* the elevations the pass geometry gives

\* handlePrediction and displayResults
VARIABLES
    hpc,           \* position in handlePrediction
    coords,        \* outcome of geocodeAddress
    satrecs,       \* per satellite: sat.satrec is set
    found,         \* per satellite: the passes its scan accepts, or a throw
    results,       \* per satellite: the value its promise resolved to
    completed,     \* the satellites in the order their promises resolved
    shown,         \* the list handed to displayResults
    noResults,     \* the no-results element is displayed
    alerted        \* the alert raised, if any

\* The pure functions of the geometry and astronomy modules, applied to one
\* input: the input, then the input with its result.
VARIABLE calc

\* fetchTLEs and updatePositions
VARIABLES
    loadpc,        \* position in fetchTLEs
    feed,          \* the catalog numbers of satellites.json, once ingested
    propagated     \* history: the propagations done, by caller and satellite

\* The prediction panel: the off-nadir field and its listeners
VARIABLES
    field,         \* the text of the maxOffNadir field
    focus,         \* the field has the focus
    invokedWith    \* history: the maxOffNadir of the last predictPasses call

\* Requests that overlap: handlePrediction and displayResults per request
VARIABLES
    reqs,                  \* per request: position, place, passes, row index
    tbody,                 \* the rows of #resultsTable
    noResultsEl,           \* #no-results is displayed
    lastObserverCoords,    \* window.lastObserverCoords
    lastObserverTimeZone   \* window.lastObserverTimeZone

searchVars == <<pc, startTime, maxOffNadir, limit, t, inPass, passStartTime,
                passes, ft, startMs, endMs, atEnd, bestDetails, cur,
                coarseSeen, calls, seenOff, altOk, missed, lateBest, horizon,
                peak, elevations>>

predictVars == <<hpc, coords, satrecs, found, results, completed, shown,
                 noResults, alerted>>

registryVars == <<loadpc, feed, propagated>>

panelVars == <<field, focus, invokedWith>>

overlapVars == <<reqs, tbody, noResultsEl, lastObserverCoords,
                 lastObserverTimeZone>>

uiVars == <<panelVars, overlapVars>>

vars == <<searchVars, predictVars, calc, registryVars, uiVars>>

CoarseSamples ==
    {NoPosition} \cup
    {[position |-> TRUE, elevation |-> e, offNadir |-> 0, sun |-> 0] :
        e \in elevations}

FineSamples ==
    {NoPosition} \cup
    {[position |-> TRUE, elevation |-> e, offNadir |-> o, sun |-> s] :
        e \in elevations, o \in OffNadirs, s \in SunElevations}

\* maxTime = maxDays * 24 * 60 * 60 * 1000, a whole number of coarse steps
maxTime == horizon * StepMs

\* The panel as the page delivers it, nothing typed, no request made.
PanelIdle ==
    /\ field = <<"1", "0">>
    /\ focus = FALSE
    /\ invokedWith = {}

OverlapIdle ==
    /\ reqs = <<>>
    /\ tbody = <<>>
    /\ noResultsEl = FALSE
    /\ lastObserverCoords = "undefined"
    /\ lastObserverTimeZone = "undefined"

\* fetchTLEs has not been called.
RegistryIdle ==
    /\ PanelIdle
    /\ OverlapIdle
    /\ loadpc = "idle"
    /\ feed = {}
    /\ propagated = {}

\* No prediction request is in progress.
PredictIdle ==
    /\ RegistryIdle
    /\ hpc = "idle"
    /\ coords = "none"
    /\ satrecs = <<>>
    /\ found = <<>>
    /\ results = <<>>
    /\ completed = <<>>
    /\ shown = <<>>
    /\ noResults = FALSE
    /\ alerted = "none"

\* No function is being evaluated.
CalcIdle == calc = [fn |-> "none"]

\* What the pure functions leave alone.
CalcFrame == UNCHANGED <<searchVars, predictVars, registryVars, uiVars>>

\* predictPasses just entered, with the given arguments, for a satellite
\* whose passes rise to the given elevations.
SearchEnteredAmong(M, lim, steps, els) ==
    /\ elevations = els
    /\ peak = 0
    /\ pc = "coarse"
    /\ startTime \in StartTimes
    /\ maxOffNadir = M
    /\ limit = lim
    /\ horizon = steps
    /\ t = 0
    /\ inPass = FALSE
    /\ passStartTime = 0
    /\ passes = <<>>
    /\ ft = 0
    /\ startMs = 0
    /\ endMs = 0
    /\ atEnd = FALSE
    /\ bestDetails = Null
    /\ cur = NoPosition
    /\ coarseSeen = <<>>
    /\ calls = <<>>
    /\ seenOff = {}
    /\ altOk = FALSE
    /\ missed = FALSE
    /\ lateBest = FALSE

SearchEntered(M, lim, steps) == SearchEnteredAmong(M, lim, steps, Elevations)

\* A search that drops the satrec it was given and the observer.
SearchFrame_DropsState ==
    /\ satrecs' = [s \in DOMAIN satrecs |-> FALSE]
    /\ coords' = "none"
    /\ UNCHANGED <<horizon, elevations, hpc, found, results, completed, shown,
                   noResults, alerted, calc, registryVars, uiVars>>

\* What the search leaves alone.
SearchFrame ==
    UNCHANGED <<horizon, elevations, predictVars, calc, registryVars, uiVars>>

Init ==
    /\ \E M \in Constraints, lim \in 1..MaxLimit :
          SearchEntered(M, lim, MaxSteps)
    /\ PredictIdle
    /\ CalcIdle

\* Entry of findBestPassDetails(sat, observerCoords, startMs, endMs, M).
EnterFine(from, to, last) ==
    /\ pc' = "fine"
    /\ startMs' = from
    /\ endMs' = to
    /\ ft' = from
    /\ atEnd' = last
    /\ bestDetails' = Null
    /\ calls' = Append(calls, <<from, to>>)
    /\ seenOff' = {}
    /\ altOk' = FALSE
    /\ lateBest' = FALSE
    /\ peak' = 0

FineUnchanged == UNCHANGED <<ft, startMs, endMs, atEnd, bestDetails, calls,
                             seenOff, altOk, lateBest, peak>>

\* Variant: the limit test is off by one.
LimitReached_OffByOne(ps, lim) == Len(ps) > lim

\* if (passes.length >= limit) break;
LimitReached(ps, lim) == Len(ps) >= lim

\* Variant: the pass is put at the front of the list.
Push_Front(ps, p) == <<p>> \o ps

\* passes.push(bestPass)
Push(ps, p) == Append(ps, p)

\* Variant: the start of the window is overwritten at every visible sample.
OpenedAt_Always(wasInPass, oldStart, now) == now

\* if (!inPass) { inPass = true; passStartTime = t; }
OpenedAt(wasInPass, oldStart, now) == IF wasInPass THEN oldStart ELSE now

\* Variant: a missing position ends the search.
CoarseSkip_Abort ==
    /\ pc' = "done"
    /\ UNCHANGED <<inPass, passStartTime, t>>
    /\ FineUnchanged

\* Variant: a missing position is handled as a sample below the horizon.
CoarseSkip_CloseWindow ==
    IF inPass
    THEN /\ EnterFine(startTime + passStartTime, startTime + t, FALSE)
         /\ UNCHANGED <<inPass, passStartTime, t>>
    ELSE /\ t' = t + StepMs
         /\ pc' = pc
         /\ UNCHANGED <<inPass, passStartTime>>
         /\ FineUnchanged

\* The missing-position branch of the coarse loop: `continue`.
CoarseSkip ==
    /\ pc' = pc
    /\ UNCHANGED <<inPass, passStartTime>>
    /\ t' = t + StepMs
    /\ FineUnchanged

\* One iteration of the coarse loop of predictPasses.
CoarseSample(s) ==
    /\ pc = "coarse"
    /\ t < maxTime
    /\ ~LimitReached(passes, limit)
    /\ cur' = s
    /\ missed' = (missed \/ ~s.position)
    /\ coarseSeen' = IF inPass \/ (s.position /\ s.elevation > 0)
                     THEN (startTime + t) :> s @@ coarseSeen
                     ELSE coarseSeen
    /\ UNCHANGED <<startTime, maxOffNadir, limit, passes>>
    /\ SearchFrame
    /\ IF ~s.position
       THEN CoarseSkip
       ELSE IF s.elevation > 0
            THEN /\ inPass' = TRUE
                 /\ passStartTime' = OpenedAt(inPass, passStartTime, t)
                 /\ t' = t + StepMs
                 /\ pc' = pc
                 /\ FineUnchanged
            ELSE IF inPass
                 THEN /\ EnterFine(startTime + passStartTime, startTime + t,
                                   FALSE)
                      /\ UNCHANGED <<inPass, passStartTime, t>>
                 ELSE /\ t' = t + StepMs
                      /\ pc' = pc
                      /\ UNCHANGED <<inPass, passStartTime>>
                      /\ FineUnchanged

CoarseStep == \E s \in CoarseSamples : CoarseSample(s)

\* Variant: the window open at the end of the horizon is dropped.
AfterLoop_NoBoundary ==
    /\ pc' = "done"
    /\ FineUnchanged

\* if (inPass) { bestPass = findBestPassDetails(.., startTime + maxTime, ..) }
\* return passes;
AfterLoop ==
    IF inPass
    THEN EnterFine(startTime + passStartTime, startTime + maxTime, TRUE)
    ELSE /\ pc' = "done"
         /\ FineUnchanged

\* The coarse loop ends (horizon reached, or `break` on the limit); the
\* window still open is refined, otherwise predictPasses returns.
CoarseExit ==
    /\ pc = "coarse"
    /\ (t >= maxTime \/ LimitReached(passes, limit))
    /\ AfterLoop
    /\ UNCHANGED <<startTime, maxOffNadir, limit, t, inPass, passStartTime,
                   passes, cur, coarseSeen, missed>>
    /\ SearchFrame

\* Variant: the comparison is reversed.
Better_Largest(s, best) ==
    /\ s.elevation > 0
    /\ (best = Null \/ s.offNadir > best.minOffNadir)

\* if (!bestDetails || offNadirDeg < bestDetails.minOffNadir) inside
\* if (lookAngles.elevation > 0)
Better(s, best) ==
    /\ s.elevation > 0
    /\ (best = Null \/ s.offNadir < best.minOffNadir)

Details(s, instant) ==
    [startTime |-> instant,
     maxElevation |-> RadToDeg(s.elevation),
     minOffNadir |-> s.offNadir,
     sunElevationAtMax |-> s.sun]

\* Variant: the filter forgets the off-nadir constraint.
Accepts_NoOffNadir(best, M) ==
    /\ best /= Null
    /\ best.sunElevationAtMax > 0

\* Variant: the filter forgets the daylight test.
Accepts_NoDaylight(best, M) ==
    /\ best /= Null
    /\ Leq(best.minOffNadir, M)

\* The filter after the fine loop.
Accepts(best, M) ==
    /\ best /= Null
    /\ best.sunElevationAtMax > 0
    /\ Leq(best.minOffNadir, M)

\* The samples the propagator can give at `instant`: what it gave at the
\* same instant in the coarse scan, with the geometry computed only now.
SamplesAt(instant) ==
    IF instant \in DOMAIN coarseSeen
    THEN {s \in FineSamples :
            /\ s.position = coarseSeen[instant].position
            /\ s.elevation = coarseSeen[instant].elevation}
    ELSE FineSamples

\* Variant: the fine loop does not advance.
NextInstant_Stuck(instant) == instant

\* t += fineStepMs
NextInstant(instant) == instant + fineStepMs

\* One iteration of the fine loop of findBestPassDetails.
FineSample(s) ==
    /\ pc = "fine"
    /\ ft <= endMs
    /\ missed' = (missed \/ ~s.position)
    /\ bestDetails' = IF s.position /\ Better(s, bestDetails)
                      THEN Details(s, ft)
                      ELSE bestDetails
    /\ lateBest' = IF s.position /\ Better(s, bestDetails)
                   THEN missed
                   ELSE lateBest
    /\ seenOff' = IF s.position /\ s.elevation > 0
                  THEN seenOff \cup {s.offNadir}
                  ELSE seenOff
    /\ altOk' = (altOk \/ (s.position /\ s.elevation > 0 /\ s.sun > 0
                           /\ Leq(s.offNadir, maxOffNadir)))
    /\ peak' = IF s.position /\ RadToDeg(s.elevation) > peak
               THEN RadToDeg(s.elevation)
               ELSE peak
    /\ ft' = NextInstant(ft)
    /\ UNCHANGED <<pc, startTime, maxOffNadir, limit, t, inPass,
                   passStartTime, passes, startMs, endMs, atEnd, cur,
                   coarseSeen, calls>>
    /\ SearchFrame

FineStep == \E s \in SamplesAt(ft) : FineSample(s)

\* findBestPassDetails returns; `if (bestPass) passes.push(bestPass)`.
FineReturn ==
    /\ pc = "fine"
    /\ ft > endMs
    /\ passes' = IF Accepts(bestDetails, maxOffNadir)
                 THEN Push(passes, bestDetails)
                 ELSE passes
    /\ coarseSeen' = <<>>
    /\ IF atEnd
       THEN /\ pc' = "done"
            /\ UNCHANGED <<inPass, t>>
       ELSE /\ pc' = "coarse"
            /\ inPass' = FALSE
            /\ t' = t + StepMs
    /\ UNCHANGED <<startTime, maxOffNadir, limit, passStartTime, ft, startMs,
                   endMs, atEnd, bestDetails, cur, calls, seenOff, altOk,
                   missed, lateBest, peak>>
    /\ SearchFrame

Next == CoarseStep \/ CoarseExit \/ FineStep \/ FineReturn

Spec == Init /\ [][Next]_vars

\* predictPasses called with arguments nobody validated: constraints outside
\* 1..90 or NaN, a limit or a horizon of zero or less.
UncheckedConstraints == {NaN, 0, 1, 91}
UncheckedLimits == {0, 1}
UncheckedHorizons == {-1, 0, MaxSteps}

InitUnchecked ==
    /\ \E M \in UncheckedConstraints, lim \in UncheckedLimits,
          steps \in UncheckedHorizons :
          SearchEntered(M, lim, steps)
    /\ PredictIdle
    /\ CalcIdle

SpecUnchecked == InitUnchecked /\ [][Next]_vars

\* A satellite whose passes rise to two different elevations.
PeakElevations == {0, 1, 2}

InitPeak ==
    /\ SearchEnteredAmong(2, 1, MaxSteps, PeakElevations)
    /\ PredictIdle
    /\ CalcIdle

SpecPeak == InitPeak /\ [][Next]_vars

\* ------------------------------------------------------ handlePrediction

Range(seq) == {seq[i] : i \in 1..Len(seq)}

\* The pass starts a search may report, in fine steps after the request.
MaxPassTime == 5

\* predictPasses(sat, coords, maxOffNadir, 5, 365): at most 5 passes each
searchLimit == 5

\* passes.slice(0, 5)
topCount == 5

\* The registry: PLEIADES NEO 3 and PLEIADES NEO 4, by array index.
Sats == {1, 2}

PassTimes == 1..MaxPassTime

\* The record of one pass, as far as ranking reads it.
Pass(s, time) == [satName |-> s, startTime |-> time]

\* The times of a set as the pass list of satellite s: ascending, as
\* predictPasses produces them.
RECURSIVE PassesOf(_, _)
PassesOf(s, times) ==
    IF times = {} THEN <<>>
    ELSE LET last == CHOOSE x \in times : \A y \in times : y <= x
         IN  Append(PassesOf(s, times \ {last}), Pass(s, last))

Pending == [state |-> "pending", value |-> <<>>]
Fulfilled(ps) == [state |-> "fulfilled", value |-> ps]
Rejected == [state |-> "rejected", value |-> <<>>]

\* What the search of satellite s can come to: a list of at most
\* searchLimit passes, or an exception.
Outcomes(s) ==
    {Fulfilled(PassesOf(s, times)) :
        times \in {x \in SUBSET PassTimes : Cardinality(x) <= searchLimit}}
    \cup {Rejected}

\* The comparator of passes.sort
Compare(a, b) == a.startTime - b.startTime

\* Array.prototype.sort: stable, p goes behind everything not after it.
Insert(sorted, p) ==
    LET k == Cardinality({i \in 1..Len(sorted) : Compare(sorted[i], p) <= 0})
    IN  SubSeq(sorted, 1, k) \o <<p>> \o SubSeq(sorted, k + 1, Len(sorted))

RECURSIVE SortByTime(_)
SortByTime(ps) ==
    IF ps = <<>> THEN <<>>
    ELSE Insert(SortByTime(SubSeq(ps, 1, Len(ps) - 1)), ps[Len(ps)])

\* passes.slice(0, 5)
TopPasses_All(ps) == ps

TopPasses(ps) == SubSeq(ps, 1, IF Len(ps) < topCount THEN Len(ps) ELSE topCount)

\* await Promise.all(promises): the values in the order of the array,
\* whatever the order the promises settled in.
Gathered_ByCompletion(res, order) == [i \in 1..Len(order) |-> res[order[i]].value]

Gathered(res, order) == [i \in 1..Len(order) |-> res[i].value]

\* results.forEach(p => passes.push(...p))
RECURSIVE Pool(_)
Pool(rs) ==
    IF rs = <<>> THEN <<>>
    ELSE Pool(SubSeq(rs, 1, Len(rs) - 1)) \o rs[Len(rs)]

\* displayResults: passes.length === 0
NoResultsShown_Never(ps) == FALSE

NoResultsShown(ps) == Len(ps) = 0

\* A prediction request: the registry and what each search will come to.
InitPredict ==
    /\ SearchEntered(1, 1, MaxSteps)
    /\ CalcIdle
    /\ RegistryIdle
    /\ hpc = "idle"
    /\ coords = "none"
    /\ satrecs \in [Sats -> BOOLEAN]
    /\ found \in [Sats -> UNION {Outcomes(s) : s \in Sats}]
    /\ \A s \in Sats : \A p \in Range(found[s].value) : p.satName = s
    /\ \A s \in Sats : ~satrecs[s] => found[s] = Fulfilled(<<>>)
    /\ results = <<>>
    /\ completed = <<>>
    /\ shown = <<>>
    /\ noResults = FALSE
    /\ alerted = "none"

PredictFrame == UNCHANGED <<searchVars, calc, loadpc, feed, uiVars>>

\* handlePrediction up to the first await.
HpStart ==
    /\ hpc = "idle"
    /\ \E locationInput \in {"", "JOSHUA", "place"} :
          IF locationInput \in {"", "JOSHUA"}
          THEN /\ hpc' = "returned"
               /\ UNCHANGED <<shown, noResults>>
          ELSE /\ hpc' = "geocode"
               /\ shown' = <<>>
               /\ noResults' = FALSE
    /\ UNCHANGED <<coords, satrecs, found, results, completed, alerted,
                   propagated>>
    /\ PredictFrame

\* geocodeAddress settles; on success the searches are started.
HpGeocode ==
    /\ hpc = "geocode"
    /\ \E status \in {"OK", "ZERO_RESULTS", "throw"} :
          CASE status = "OK" ->
                /\ coords' = "ok"
                /\ results' = [s \in Sats |-> Pending]
                /\ hpc' = "search"
                /\ UNCHANGED alerted
            [] status = "ZERO_RESULTS" ->
                /\ coords' = "null"
                /\ alerted' = "geocode"
                /\ hpc' = "returned"
                /\ UNCHANGED results
            [] OTHER ->
                /\ alerted' = "error"
                /\ hpc' = "failed"
                /\ UNCHANGED <<coords, results>>
    /\ UNCHANGED <<satrecs, found, completed, shown, noResults, propagated>>
    /\ PredictFrame

\* Variant: the search keeps the last `lim` passes it accepts.
FirstPasses_Latest(ps, lim) ==
    SubSeq(ps, IF Len(ps) <= lim THEN 1 ELSE Len(ps) - lim + 1, Len(ps))

\* if (passes.length >= limit) break: of the passes the scan would accept
\* in the horizon, the search returns the first `lim`.
FirstPasses(ps, lim) == SubSeq(ps, 1, IF Len(ps) <= lim THEN Len(ps) ELSE lim)

\* What the promise of predictPasses(sat, coords, maxOffNadir, lim, 365)
\* settles to.
Returned(outcome, lim) ==
    IF outcome.state = "fulfilled"
    THEN Fulfilled(FirstPasses(outcome.value, lim))
    ELSE outcome

\* if (sat.satrec)
HasSatrec_Always(registry, s) == TRUE

HasSatrec(registry, s) == registry[s]

\* One call of satellite.propagate, as the history keeps it.
Propagation(caller, s) == [by |-> caller, sat |-> s, satrec |-> satrecs[s]]

\* The callback of satellites.map for one satellite settles its promise:
\* predictPasses if the satellite has a satrec, else [].
HpSearch(s) ==
    /\ hpc = "search"
    /\ results[s] = Pending
    /\ results' = [results EXCEPT
                     ![s] = IF HasSatrec(satrecs, s)
                            THEN Returned(found[s], searchLimit)
                            ELSE Fulfilled(<<>>)]
    /\ propagated' = IF HasSatrec(satrecs, s)
                     THEN propagated \cup {Propagation("predictPasses", s)}
                     ELSE propagated
    /\ completed' = Append(completed, s)
    /\ UNCHANGED <<hpc, coords, satrecs, found, shown, noResults, alerted>>
    /\ PredictFrame

\* Promise.all settles: pool, sort, slice, displayResults; or the catch.
HpRank ==
    /\ hpc = "search"
    /\ \A s \in Sats : results[s] /= Pending
    /\ IF \E s \in Sats : results[s] = Rejected
       THEN /\ alerted' = "error"
            /\ hpc' = "failed"
            /\ UNCHANGED <<shown, noResults>>
       ELSE LET passList == Pool(Gathered(results, completed))
                topPasses == TopPasses(SortByTime(passList))
            IN  /\ shown' = topPasses
                /\ noResults' = NoResultsShown(topPasses)
                /\ hpc' = "displayed"
                /\ UNCHANGED alerted
    /\ UNCHANGED <<coords, satrecs, found, results, completed, propagated>>
    /\ PredictFrame

NextPredict ==
    \/ HpStart
    \/ HpGeocode
    \/ \E s \in Sats : HpSearch(s)
    \/ HpRank

SpecPredict == InitPredict /\ [][NextPredict]_vars

\* Satellites that have more accepted passes in the horizon than a search
\* returns.
RankingTimes == 1..(MaxPassTime + 1)

InitRanking ==
    /\ SearchEntered(1, 1, MaxSteps)
    /\ CalcIdle
    /\ RegistryIdle
    /\ hpc = "idle"
    /\ coords = "none"
    /\ satrecs = [s \in Sats |-> TRUE]
    /\ \E times \in [Sats -> SUBSET RankingTimes] :
          found = [s \in Sats |-> Fulfilled(PassesOf(s, times[s]))]
    /\ results = <<>>
    /\ completed = <<>>
    /\ shown = <<>>
    /\ noResults = FALSE
    /\ alerted = "none"

SpecRanking == InitRanking /\ [][NextPredict]_vars

\* ------------------------------------------- fetchTLEs and updatePositions

\* catNr of the registry entries
CatNr == <<48268, 49070>>

\* Catalog numbers satellites.json may hold: the two of the registry and one
\* that is not in it.
FeedCatNrs == {48268, 49070, 25544}

\* data.forEach: the entry with the catalog number of an item gets a satrec,
\* an item without an entry is only logged.
Ingest_AddsUnknown(registry, data) ==
    [s \in DOMAIN registry \cup (data \ {CatNr[i] : i \in DOMAIN registry}) |->
        IF s \in DOMAIN registry THEN (CatNr[s] \in data \/ registry[s])
        ELSE TRUE]

Ingest(registry, data) ==
    [s \in DOMAIN registry |-> IF CatNr[s] \in data THEN TRUE ELSE registry[s]]

\* satellites.forEach(sat => { if (!sat.satrec) return; ... })
TickSats(registry) == {s \in DOMAIN registry : HasSatrec(registry, s)}

\* The propagations of one updatePositions over the registry.
TickPropagations(registry) ==
    {[by |-> "updatePositions", sat |-> s, satrec |-> registry[s]] :
        s \in TickSats(registry)}

\* Startup: the registry without satrecs, fetchTLEs called, and a request
\* whose searches would come to the given outcomes.
InitApp ==
    /\ SearchEntered(1, 1, MaxSteps)
    /\ CalcIdle
    /\ PanelIdle
    /\ OverlapIdle
    /\ loadpc = "fetching"
    /\ feed = {}
    /\ propagated = {}
    /\ hpc = "idle"
    /\ coords = "none"
    /\ satrecs = [s \in Sats |-> FALSE]
    /\ found \in [Sats -> {Fulfilled(<<>>), Rejected}
                          \cup {Fulfilled(PassesOf(s, {1})) : s \in Sats}]
    /\ \A s \in Sats : \A p \in Range(found[s].value) : p.satName = s
    /\ results = <<>>
    /\ completed = <<>>
    /\ shown = <<>>
    /\ noResults = FALSE
    /\ alerted = "none"

RegistryFrame ==
    UNCHANGED <<searchVars, calc, hpc, coords, found, results, completed,
                shown, noResults, alerted, uiVars>>

\* fetchTLEs after its awaits: the items are ingested, the interval is
\* started and updatePositions is called once.
LoadOk ==
    /\ loadpc = "fetching"
    /\ \E data \in SUBSET FeedCatNrs :
          /\ feed' = data
          /\ satrecs' = Ingest(satrecs, data)
          /\ propagated' = propagated \cup TickPropagations(Ingest(satrecs, data))
    /\ loadpc' = "running"
    /\ RegistryFrame

\* fetchTLEs when the fetch fails: the interval is started all the same.
LoadFail ==
    /\ loadpc = "fetching"
    /\ loadpc' = "running"
    /\ propagated' = propagated \cup TickPropagations(satrecs)
    /\ UNCHANGED <<feed, satrecs>>
    /\ RegistryFrame

\* updatePositions, every second
Tick ==
    /\ loadpc = "running"
    /\ propagated' = propagated \cup TickPropagations(satrecs)
    /\ UNCHANGED <<loadpc, feed, satrecs>>
    /\ RegistryFrame

NextApp ==
    \/ LoadOk
    \/ LoadFail
    \/ Tick
    \/ HpStart
    \/ HpGeocode
    \/ \E s \in Sats : HpSearch(s)
    \/ HpRank

SpecApp == InitApp /\ [][NextApp]_vars

\* ------------------------------------- predictPasses inside a request

\* predictPasses as handlePrediction calls it: the registry is loaded, the
\* observer is geocoded and the promises of the request are pending.
InitInRequest ==
    /\ \E M \in Constraints : SearchEntered(M, 1, MaxSteps)
    /\ CalcIdle
    /\ PanelIdle
    /\ OverlapIdle
    /\ loadpc = "running"
    /\ feed = {CatNr[s] : s \in Sats}
    /\ propagated = {}
    /\ hpc = "search"
    /\ coords = "ok"
    /\ satrecs = [s \in Sats |-> TRUE]
    /\ found = [s \in Sats |-> Fulfilled(<<>>)]
    /\ results = [s \in Sats |-> Pending]
    /\ completed = <<>>
    /\ shown = <<>>
    /\ noResults = FALSE
    /\ alerted = "none"

SpecInRequest == InitInRequest /\ [][Next]_vars

\* predictPasses is synchronous code: once called it runs on, step after
\* step, until it returns.
SpecRunToCompletion == InitInRequest /\ [][Next]_vars /\ WF_vars(Next)

\* ------------------------------------------- the maxOffNadir field (panel)

\* The longest text typed into the field.
MaxText == 3

Digits == {"0", "1", "9"}
Chars == Digits \cup {"-"}

\* The texts an edit can leave in the field before the input listener runs.
Texts == UNION {[1..n -> Chars] : n \in 0..MaxText}

IsDigit(c) == c \in Digits

DigitValue(c) == CASE c = "0" -> 0 [] c = "1" -> 1 [] c = "9" -> 9

\* The digits parseInt consumes: the longest prefix of digits.
RECURSIVE DigitsPrefix(_)
DigitsPrefix(text) ==
    IF text = <<>> \/ ~IsDigit(Head(text)) THEN <<>>
    ELSE <<Head(text)>> \o DigitsPrefix(Tail(text))

RECURSIVE Number(_)
Number(digits) ==
    IF digits = <<>> THEN 0
    ELSE Number(SubSeq(digits, 1, Len(digits) - 1)) * 10
         + DigitValue(digits[Len(digits)])

\* parseInt(text, 10): an optional sign, then digits; NaN without a digit.
ParseInt(text) ==
    LET negative == text /= <<>> /\ Head(text) = "-"
        digits == DigitsPrefix(IF negative THEN Tail(text) ELSE text)
    IN  IF digits = <<>> THEN NaN
        ELSE IF negative THEN 0 - Number(digits) ELSE Number(digits)

\* The input listener: non-digits are removed, a value above 90 becomes 90.
OnInput(text) ==
    LET stripped == SelectSeq(text, IsDigit)
        val == ParseInt(stripped)
    IN  IF val /= NaN /\ val > 90 THEN <<"9", "0">> ELSE stripped

\* The blur listener: no number, or one below 1, becomes 1.
OnBlur(text) ==
    LET val == ParseInt(text)
    IN  IF val = NaN \/ val < 1 THEN <<"1">> ELSE text

InitPanel ==
    /\ SearchEntered(1, 1, MaxSteps)
    /\ PredictIdle
    /\ CalcIdle

PanelFrame ==
    UNCHANGED <<searchVars, predictVars, calc, registryVars, overlapVars>>

\* The field takes the focus.
Focus ==
    /\ ~focus
    /\ focus' = TRUE
    /\ UNCHANGED <<field, invokedWith>>
    /\ PanelFrame

\* An edit of the field, and the input listener on its result.
Input(text) ==
    /\ focus
    /\ field' = OnInput(text)
    /\ UNCHANGED <<focus, invokedWith>>
    /\ PanelFrame

\* The field loses the focus, and the blur listener runs.
Blur ==
    /\ focus
    /\ focus' = FALSE
    /\ field' = OnBlur(field)
    /\ UNCHANGED invokedWith
    /\ PanelFrame

\* handlePrediction as far as the call of predictPasses, which it reaches
\* when the location is given and geocoded and a satellite has a satrec:
\* maxOffNadir = parseInt(maxOffNadirInput.value, 10).
Invoke ==
    /\ \E reaches \in BOOLEAN :
          invokedWith' = IF reaches THEN {ParseInt(field)} ELSE invokedWith
    /\ UNCHANGED <<field, focus>>
    /\ PanelFrame

\* Enter pressed in the field: the keypress listener, with no blur before.
EnterKey ==
    /\ focus
    /\ Invoke

\* The button clicked, or Enter pressed in the location field: the focus
\* is elsewhere, the blur listener has run.
Click ==
    /\ ~focus
    /\ Invoke

NextPanel ==
    \/ Focus
    \/ \E text \in Texts : Input(text)
    \/ Blur
    \/ EnterKey
    \/ Click

SpecPanel == InitPanel /\ [][NextPanel]_vars

\* ------------------------------------------------- overlapping requests

\* The most passes a request displays in the model (the code: 5).
MaxRows == 2

\* Two requests: nothing in the code keeps a second handlePrediction from
\* starting while the first one is awaiting.
Requests == {1, 2}

\* The places asked for, each standing for its coordinates and time zone.
Places == {"A", "B"}

OverlapFrame ==
    UNCHANGED <<searchVars, predictVars, calc, registryVars, panelVars>>

InitOverlap ==
    /\ SearchEntered(1, 1, MaxSteps)
    /\ PredictIdle
    /\ CalcIdle

\* handlePrediction with a location, up to `await geocodeAddress`:
\* showLoading(true); clearResults().
Request(place) ==
    /\ Len(reqs) < Cardinality(Requests)
    /\ reqs' = Append(reqs, [pc |-> "geocode", place |-> place,
                             zone |-> "undefined", n |-> 0, row |-> 0,
                             asked |-> "undefined"])
    /\ tbody' = <<>>
    /\ noResultsEl' = FALSE
    /\ UNCHANGED <<lastObserverCoords, lastObserverTimeZone>>
    /\ OverlapFrame

\* geocodeAddress settles: no coords and the request returns, or the coords
\* are stored in window.lastObserverCoords and fetchTimeZone is awaited.
Geocoded(r) ==
    /\ r \in DOMAIN reqs
    /\ reqs[r].pc = "geocode"
    /\ \E ok \in BOOLEAN :
          IF ok
          THEN /\ lastObserverCoords' = reqs[r].place
               /\ reqs' = [reqs EXCEPT ![r].pc = "timezone"]
          ELSE /\ reqs' = [reqs EXCEPT ![r].pc = "done"]
               /\ UNCHANGED lastObserverCoords
    /\ UNCHANGED <<tbody, noResultsEl, lastObserverTimeZone>>
    /\ OverlapFrame

\* fetchTimeZone settles (the zone of the place, or undefined when the
\* fetch fails) and is stored in window.lastObserverTimeZone; the searches
\* run, their passes are ranked and displayResults(topPasses) runs up to
\* its first await: the table is emptied, and either the no-results
\* element is shown or fetchWeather is called for the first pass with the
\* coordinates window.lastObserverCoords holds at that moment.
Zoned(r) ==
    /\ r \in DOMAIN reqs
    /\ reqs[r].pc = "timezone"
    /\ \E zone \in {reqs[r].place, "undefined"}, n \in 0..MaxRows :
          /\ lastObserverTimeZone' = zone
          /\ tbody' = <<>>
          /\ noResultsEl' = (n = 0)
          /\ reqs' = [reqs EXCEPT
                        ![r] = [pc |-> IF n = 0 THEN "done" ELSE "weather",
                                place |-> reqs[r].place,
                                zone |-> zone,
                                n |-> n,
                                row |-> IF n = 0 THEN 0 ELSE 1,
                                asked |-> IF n = 0 THEN "undefined"
                                          ELSE lastObserverCoords]]
    /\ UNCHANGED lastObserverCoords
    /\ OverlapFrame

\* The row displayResults builds for a pass once fetchWeather has settled.
Row(r) ==
    [req |-> r, pass |-> reqs[r].row, coords |-> reqs[r].asked,
     zone |-> lastObserverTimeZone]

\* fetchWeather settles: the row is formatted in the time zone
\* window.lastObserverTimeZone holds now and appended to the table, and
\* the loop goes on to the next pass, if any.
Weather(r) ==
    /\ r \in DOMAIN reqs
    /\ reqs[r].pc = "weather"
    /\ tbody' = Append(tbody, Row(r))
    /\ reqs' = IF reqs[r].row < reqs[r].n
               THEN [reqs EXCEPT ![r].row = reqs[r].row + 1,
                                 ![r].asked = lastObserverCoords]
               ELSE [reqs EXCEPT ![r].pc = "done"]
    /\ UNCHANGED <<noResultsEl, lastObserverCoords, lastObserverTimeZone>>
    /\ OverlapFrame

NextOverlap ==
    \/ \E place \in Places : Request(place)
    \/ \E r \in Requests : Geocoded(r)
    \/ \E r \in Requests : Zoned(r)
    \/ \E r \in Requests : Weather(r)

SpecOverlap == InitOverlap /\ [][NextOverlap]_vars

\* ------------------------------------------------------------ properties

Last(seq) == seq[Len(seq)]

\* The horizon end, now + maxDays.
HorizonEnd == startTime + maxTime

\* A coarse sample is evaluated in the step that leaves this state.
Sampling == pc = "coarse" /\ t < maxTime /\ Len(passes) < limit

\* C1: every pass in the result has minOffNadir <= maxOffNadir, sun
\* elevation > 0 and maxElevation > 0, whatever the propagator returned.
C1_PassConstraints ==
    \A i \in 1..Len(passes) :
        /\ passes[i].minOffNadir <= maxOffNadir
        /\ passes[i].sunElevationAtMax > 0
        /\ passes[i].maxElevation > 0

\* A search with a missing sample has returned a pass exactly at the
\* constraint, after a window whose candidate it could not accept.
C1_Witness ==
    /\ pc = "done"
    /\ missed
    /\ Len(passes) = 1
    /\ Len(calls) = 2
    /\ passes[1].minOffNadir = maxOffNadir

\* C2: the result is strictly increasing in startTime, the pass appended
\* after the coarse loop included.
C2_StrictlyIncreasing ==
    \A i \in 1..(Len(passes) - 1) :
        passes[i].startTime < passes[i + 1].startTime

\* Two passes returned, the second from the window open at the horizon end.
C2_Witness ==
    /\ pc = "done"
    /\ atEnd
    /\ Len(passes) = 2
    /\ passes[2] = bestDetails

\* C3: the result never holds more than `limit` passes, and once it holds
\* `limit` passes no window is refined any more (so no pass is appended
\* after the loop either).
C3_AtMostLimit ==
    /\ Len(passes) <= limit
    /\ (Len(passes) = limit => pc /= "fine")

\* The scan stopped before the horizon because the limit was reached.
C3_Witness ==
    /\ pc = "done"
    /\ Len(passes) = limit
    /\ t < maxTime
    /\ limit < MaxLimit

\* C4: the candidate of a window is a sample above the horizon whose
\* off-nadir angle is the smallest among the window's samples above the
\* horizon, and there is a candidate exactly when there is such a sample.
C4_CandidateIsMinOffNadir ==
    /\ (bestDetails = Null) <=> (seenOff = {})
    /\ bestDetails /= Null =>
          /\ bestDetails.minOffNadir \in seenOff
          /\ \A o \in seenOff : bestDetails.minOffNadir <= o
          /\ bestDetails.maxElevation > 0
          /\ bestDetails.startTime >= startMs
          /\ bestDetails.startTime <= endMs

\* A window has been refined whose samples above the horizon had different
\* off-nadir angles, the smallest not at the first sample.
C4_Witness ==
    /\ pc = "fine"
    /\ ft > endMs
    /\ Cardinality(seenOff) = 2
    /\ bestDetails /= Null
    /\ bestDetails.startTime > startMs

\* C5: when the candidate of a window (its minimum-off-nadir sample) is not
\* in daylight or exceeds the constraint, the call adds no pass.
C5_NoFallback ==
    [][(/\ pc = "fine"
        /\ pc' /= "fine"
        /\ bestDetails /= Null
        /\ (bestDetails.sunElevationAtMax <= 0
              \/ bestDetails.minOffNadir > maxOffNadir))
       => passes' = passes]_vars

\* A search ended without a pass although a sample of its only window, not
\* the candidate, was above the horizon, in daylight and within the
\* constraint.
C5_Witness ==
    /\ pc = "done"
    /\ Len(calls) = 1
    /\ passes = <<>>
    /\ altOk
    /\ bestDetails /= Null
    /\ bestDetails.sunElevationAtMax <= 0

\* C6: inPass goes false->true exactly at a coarse sample with elevation > 0,
\* recording passStartTime, and true->false exactly at the next coarse
\* sample with elevation <= 0; that sample hands the window
\* (passStart, passEnd) to Phase 2 once, windows follow one another in
\* increasing time, and passStart < passEnd.
C6_InPassTransitions ==
    [][/\ (~inPass /\ inPass') =>
            /\ Sampling
            /\ cur'.position /\ cur'.elevation > 0
            /\ passStartTime' = t
       /\ (inPass /\ ~inPass') =>
            /\ pc = "fine" /\ ~atEnd
            /\ cur.position /\ cur.elevation <= 0
            /\ Last(calls) = <<startTime + passStartTime, startTime + t>>
            /\ \A i \in DOMAIN coarseSeen :
                  i < startTime + t =>
                    ~(coarseSeen[i].position /\ coarseSeen[i].elevation <= 0)
       /\ (Sampling /\ cur'.position /\ cur'.elevation > 0) =>
            /\ inPass'
            /\ (inPass => passStartTime' = passStartTime)
       /\ (Sampling /\ inPass /\ cur'.position /\ cur'.elevation <= 0) =>
            /\ pc' = "fine"
            /\ calls' = Append(calls, <<startTime + passStartTime,
                                        startTime + t>>)
       /\ (Sampling /\ ~(inPass /\ cur'.position /\ cur'.elevation <= 0)) =>
            calls' = calls
       /\ (Len(calls') > Len(calls)) =>
            /\ Len(calls') = Len(calls) + 1
            /\ Last(calls')[1] < Last(calls')[2]
            /\ (calls /= <<>> => Last(calls)[2] < Last(calls')[1])
      ]_vars

\* A window opened at the first coarse sample and closed at the second was
\* refined, and a later window was refined after it.
C6_Witness ==
    /\ pc = "done"
    /\ Len(calls) = 2
    /\ calls[1] = <<startTime, startTime + StepMs>>
    /\ calls[2] = <<startTime + 2 * StepMs, HorizonEnd>>

\* C7: Phase 2 never evaluates the end instant of its window, and no pass of
\* the result has its time at the end of a window or at or after the
\* horizon end.
C7_EndNeverSampled ==
    /\ (calls /= <<>> => ft <= endMs)
    /\ \A i \in 1..Len(passes) :
          /\ passes[i].startTime < HorizonEnd
          /\ \A j \in 1..Len(calls) : passes[i].startTime /= calls[j][2]

\* C8: when the coarse loop reaches the horizon with a window open, that
\* window up to the horizon end is refined once, and its candidate, if the
\* filter accepts it, becomes the last element of the result.
C8_BoundaryWindow ==
    [][/\ (pc = "coarse" /\ t >= maxTime /\ inPass) =>
            /\ pc' = "fine"
            /\ atEnd'
            /\ calls' = Append(calls, <<startTime + passStartTime,
                                        HorizonEnd>>)
       /\ (pc = "fine" /\ atEnd /\ pc' /= "fine") =>
            /\ pc' = "done"
            /\ passes' = IF Accepts(bestDetails, maxOffNadir)
                          THEN Append(passes, bestDetails)
                          ELSE passes
       /\ atEnd => calls' = calls
      ]_vars

\* The search returned with the candidate of the window open at the horizon
\* end as the last pass, after an earlier pass.
C8_Witness ==
    /\ pc = "done"
    /\ atEnd
    /\ Last(calls) = <<startTime + passStartTime, HorizonEnd>>
    /\ Len(passes) = 2
    /\ Last(passes) = bestDetails
    /\ passStartTime = 2 * StepMs

\* C9: a sample without a position does not end the search: predictPasses
\* returns only with the horizon scanned or the limit reached, and a Phase 2
\* call returns only after the last instant of its window.
C9_MissingSampleDoesNotAbort ==
    /\ (pc = "done" => (t >= maxTime \/ Len(passes) >= limit))
    /\ (pc /= "fine" /\ calls /= <<>> => ft > endMs)

\* The search returned a pass taken from a sample that was evaluated after
\* a sample without a position.
C9_Witness ==
    /\ pc = "done"
    /\ missed
    /\ lateBest
    /\ passes /= <<>>
    /\ Last(passes) = bestDetails

\* C10 as stated: a coarse sample without a position acts as a sample with
\* elevation <= 0: it closes the window in progress and hands it to Phase 2,
\* and it opens no window.
C10_MissingClosesWindow ==
    [][(Sampling /\ ~cur'.position) =>
          IF inPass
          THEN /\ pc' = "fine"
               /\ calls' = Append(calls, <<startTime + passStartTime,
                                           startTime + t>>)
          ELSE ~inPass'
      ]_vars

\* C10 amended: a coarse sample without a position is skipped: inPass,
\* passStartTime and the result stay as they were and nothing is handed to
\* Phase 2, so it neither opens nor closes a window.
C10_MissingIsSkipped ==
    [][(Sampling /\ ~cur'.position) =>
          /\ inPass' = inPass
          /\ passStartTime' = passStartTime
          /\ passes' = passes
          /\ calls' = calls
          /\ pc' = "coarse"
          /\ t' = t + StepMs
      ]_vars

\* A window is still open after a coarse sample without a position.
C10_Witness ==
    /\ pc = "coarse"
    /\ inPass
    /\ ~cur.position
    /\ t > passStartTime + StepMs

\* The arguments of the search are outside the domain of the engine.
InvalidRequest ==
    \/ maxOffNadir = NaN
    \/ maxOffNadir < 1
    \/ maxOffNadir > 90
    \/ limit <= 0
    \/ horizon <= 0

\* C11: a search whose maxOffNadir is outside [1, 90] or NaN, or whose limit
\* or maxDays is <= 0, is rejected before any sample is propagated: it
\* evaluates no sample and returns no result.
C11_InvalidRejected ==
    InvalidRequest => (t = 0 /\ calls = <<>> /\ pc /= "done")

\* ------------------------------------------- properties of handlePrediction

\* The passes the searches returned, whichever satellite they are of.
Pooled == UNION {Range(results[s].value) : s \in Sats}

\* The request is over: displayed, returned early or failed.
Finished == hpc \in {"displayed", "returned", "failed"}

\* C12: when every search returns the empty sequence (no window satisfied the
\* constraints, no error raised), handlePrediction reaches displayResults
\* with the empty list, the no-results element is shown, and the error path
\* (the alert of the catch block) is not taken.
C12_EmptyIsNoResults ==
    (/\ Finished
     /\ coords = "ok"
     /\ \A s \in Sats : results[s] = Fulfilled(<<>>))
    => (/\ hpc = "displayed"
        /\ shown = <<>>
        /\ noResults
        /\ alerted = "none")

C12_Witness ==
    /\ hpc = "displayed"
    /\ \A s \in Sats : satrecs[s] /\ results[s] = Fulfilled(<<>>)
    /\ noResults

\* C13: the list handed to displayResults holds passes of the pool of all
\* satellites, each once, is as long as the pool up to 5, never longer than
\* 5, and its startTime is non-decreasing.
C13_SortedTopFive ==
    hpc = "displayed" =>
        /\ Len(shown) <= 5
        /\ Len(shown) = (IF Cardinality(Pooled) < 5 THEN Cardinality(Pooled)
                         ELSE 5)
        /\ Range(shown) \subseteq Pooled
        /\ \A i, j \in 1..Len(shown) :
              i < j => /\ shown[i].startTime <= shown[j].startTime
                       /\ shown[i] /= shown[j]

\* More than five passes pooled, of both satellites, and five shown.
C13_Witness ==
    /\ hpc = "displayed"
    /\ Cardinality(Pooled) > 5
    /\ Len(shown) = 5
    /\ \E i, j \in 1..Len(shown) : shown[i].satName /= shown[j].satName

\* What the search of satellite s contributes, by the inputs alone.
Contribution(s) == IF satrecs[s] THEN Range(found[s].value) ELSE {}

\* The total order of the ranking: by start time, equal times by the index
\* of the satellite in the registry.
Before(p, q) ==
    \/ p.startTime < q.startTime
    \/ p.startTime = q.startTime /\ p.satName < q.satName

\* C14: the ranked list is the same whatever order the per-satellite searches
\* ran or completed in: it is determined by what the searches return, as the
\* first five of their pool under the order Before, in which the order of
\* completion does not occur.
C14_OrderIndependent ==
    hpc = "displayed" =>
        LET all == UNION {Contribution(s) : s \in Sats}
        IN  /\ Range(shown) \subseteq all
            /\ \A i, j \in 1..Len(shown) : i < j => Before(shown[i], shown[j])
            /\ \A p \in all \ Range(shown) :
                  /\ Len(shown) = 5
                  /\ \A i \in 1..Len(shown) : Before(shown[i], p)

\* The second satellite's search completed first and a pass of each
\* satellite at the same time is shown.
C14_Witness ==
    /\ hpc = "displayed"
    /\ completed = <<2, 1>>
    /\ \E i, j \in 1..Len(shown) :
          /\ shown[i].startTime = shown[j].startTime
          /\ shown[i].satName /= shown[j].satName

\* ------------------------------------------------ calculateFootprintRadius

\* 1.0 in the fixed-point unit of sines; angles are in thousandths of a degree
One == 100000

R_EARTH == 6371

\* Math.sin at whole degrees 0..90, in units of 1/One
SinTable == <<
    0, 1745, 3490, 5234, 6976, 8716, 10453, 12187, 13917, 15643,
    17365, 19081, 20791, 22495, 24192, 25882, 27564, 29237, 30902, 32557,
    34202, 35837, 37461, 39073, 40674, 42262, 43837, 45399, 46947, 48481,
    50000, 51504, 52992, 54464, 55919, 57358, 58779, 60182, 61566, 62932,
    64279, 65606, 66913, 68200, 69466, 70711, 71934, 73135, 74314, 75471,
    76604, 77715, 78801, 79864, 80902, 81915, 82904, 83867, 84805, 85717,
    86603, 87462, 88295, 89101, 89879, 90631, 91355, 92050, 92718, 93358,
    93969, 94552, 95106, 95630, 96126, 96593, 97030, 97437, 97815, 98163,
    98481, 98769, 99027, 99255, 99452, 99619, 99756, 99863, 99939, 99985,
    100000
>>

\* Math.sin(deg * Math.PI / 180) for -180 <= deg <= 180
Sin(deg) ==
    LET m == IF deg < 0 THEN -deg ELSE deg
        r == IF m > 90 THEN 180 - m ELSE m
    IN  IF deg < 0 THEN -SinTable[r + 1] ELSE SinTable[r + 1]

\* Math.asin on [0, 1], in thousandths of a degree: the table read backwards,
\* linear between two entries.
AsinOfFraction(x) ==
    IF x >= One THEN 90000
    ELSE LET d == CHOOSE k \in 0..89 : SinTable[k + 1] <= x /\ x < SinTable[k + 2]
         IN  d * 1000
             + ((x - SinTable[d + 1]) * 1000) \div (SinTable[d + 2] - SinTable[d + 1])

\* Math.asin: NaN outside [-1, 1]
Asin(x) ==
    IF x > One \/ x < -One THEN NaN
    ELSE IF x < 0 THEN -AsinOfFraction(-x)
    ELSE AsinOfFraction(x)

\* ((R_EARTH + altitudeKm) / R_EARTH) * sinAlpha
Term_Inverted(altitudeKm, sinAlpha) == (R_EARTH * sinAlpha) \div (R_EARTH + altitudeKm)

Term(altitudeKm, sinAlpha) == ((R_EARTH + altitudeKm) * sinAlpha) \div R_EARTH

\* if (term > 1) term = 1
Clamp(term) == IF term > One THEN One ELSE term

\* R_EARTH * beta * 1000 with beta in radians: thousandths of a degree to
\* metres of arc (pi / 180 = 0.017453)
ArcMetres_Km(beta) == (((beta * R_EARTH) \div 10000) * 17453) \div 100000

ArcMetres(beta) == (((beta * R_EARTH) \div 10000) * 17453) \div 100

\* script.js, and the first revision in part_002
calculateFootprintRadius(altitudeKm, offNadirDeg) ==
    LET alpha == offNadirDeg * 1000
        sinAlpha == Sin(offNadirDeg)
        term == Clamp(Term(altitudeKm, sinAlpha))
        eta == Asin(term)
    IN  IF eta = NaN THEN NaN ELSE ArcMetres(eta - alpha)

\* the older revision in part_002: beyond the horizon the radius is 0
calculateFootprintRadiusOlder(altitudeKm, offNadirDeg) ==
    LET alpha == offNadirDeg * 1000
        sinAlpha == Sin(offNadirDeg)
        term == Term(altitudeKm, sinAlpha)
        eta == Asin(term)
    IN  IF term > One THEN 0
        ELSE IF eta = NaN THEN NaN ELSE ArcMetres(eta - alpha)

\* Altitudes in km (620: Pleiades Neo) and off-nadir angles in degrees.
Altitudes == {400, 620, 1400}
Angles == -90..90

InitFootprint ==
    /\ SearchEntered(1, 1, MaxSteps)
    /\ PredictIdle
    /\ CalcIdle

CallFootprint ==
    /\ CalcIdle
    /\ \E alt \in Altitudes, a \in Angles :
          calc' = [fn |-> "footprint", altitudeKm |-> alt, offNadirDeg |-> a,
                   term |-> Term(alt, Sin(a)),
                   radius |-> calculateFootprintRadius(alt, a),
                   older |-> calculateFootprintRadiusOlder(alt, a)]
    /\ CalcFrame

NextFootprint == CallFootprint

SpecFootprint == InitFootprint /\ [][NextFootprint]_vars

\* ---------------------------------------------- properties of the footprint

Called == calc.fn = "footprint"

\* The off-nadir angle is past the horizon: sin(alpha) (R + h) / R > 1
BeyondHorizon(altitudeKm, offNadirDeg) == Term(altitudeKm, Sin(offNadirDeg)) > One

\* C15: for a fixed altitude the radius is 0 at offNadirDeg = 0 and
\* non-decreasing in offNadirDeg from 0 up to the horizon limit.
C15_Monotone ==
    Called =>
        /\ calculateFootprintRadius(calc.altitudeKm, 0) = 0
        /\ (calc.offNadirDeg > 0 /\ ~BeyondHorizon(calc.altitudeKm, calc.offNadirDeg))
              => calc.radius >= calculateFootprintRadius(calc.altitudeKm,
                                                          calc.offNadirDeg - 1)

\* A positive radius just below the horizon limit of 620 km.
C15_Witness ==
    /\ Called
    /\ calc.altitudeKm = 620
    /\ calc.offNadirDeg = 65
    /\ ~BeyondHorizon(620, 65)
    /\ BeyondHorizon(620, 66)
    /\ calc.radius > calculateFootprintRadius(620, 64)
    /\ calculateFootprintRadius(620, 64) > 0

\* C16: beyond the horizon every copy of calculateFootprintRadius in the
\* repository returns the same value.
C16_SinglePolicy ==
    (Called /\ calc.term > One) => calc.radius = calc.older

\* C17: for every altitude >= 0 and every angle the function returns a
\* number, term being clamped into [-1, 1] on both sides.
C17_NeverNaN ==
    Called => calc.radius /= NaN

\* C18 as stated: at 620 km and 30 degrees the radius is between 380,000 and
\* 420,000 metres.
C18_Between380And420 ==
    (Called /\ calc.altitudeKm = 620 /\ calc.offNadirDeg = 30)
        => (380000 <= calc.radius /\ calc.radius <= 420000)

\* C18, amended: at 620 km and 30 degrees the radius is between 360,000 and
\* 370,000 metres.
C18_Between360And370 ==
    (Called /\ calc.altitudeKm = 620 /\ calc.offNadirDeg = 30)
        => (360000 <= calc.radius /\ calc.radius <= 370000)

C18_Witness ==
    /\ Called
    /\ calc.altitudeKm = 620
    /\ calc.offNadirDeg = 30
    /\ calc.radius > 0

\* ---------------------------------------------------------- getSunPosition

\* The remainder operator of JavaScript: the sign of the dividend
Rem(a, n) == IF a >= 0 THEN a % n ELSE -((-a) % n)

\* subSolarLng %= 360; if (> 180) -= 360; if (< -180) += 360
NormalizeLng_NoWrap(lng) == Rem(lng, 360)

NormalizeLng(lng) ==
    LET r == Rem(lng, 360)
        s == IF r > 180 THEN r - 360 ELSE r
    IN  IF s < -180 THEN s + 360 ELSE s

\* Right ascension: Math.atan2(...) * deg, in degrees
RightAscensions == -180..180

\* satellite.gstime(date) * deg: 0 <= gmstDeg < 360
SiderealTimes == {15 * h : h \in 0..23} \cup {1, 179, 181, 359}

\* The longitude part of getSunPosition
SubSolarLng(alpha, gmstDeg) == NormalizeLng(alpha - gmstDeg)

InitSun ==
    /\ SearchEntered(1, 1, MaxSteps)
    /\ PredictIdle
    /\ CalcIdle

CallSunPosition ==
    /\ CalcIdle
    /\ \E alpha \in RightAscensions, gmstDeg \in SiderealTimes :
          calc' = [fn |-> "sun", alpha |-> alpha, gmstDeg |-> gmstDeg,
                   lng |-> SubSolarLng(alpha, gmstDeg)]
    /\ CalcFrame

NextSun == CallSunPosition

SpecSun == InitSun /\ [][NextSun]_vars

\* C20 as stated: the sub-solar longitude lies in (-180, 180]; -180 is never
\* returned.
C20_HalfOpenRange ==
    calc.fn = "sun" => (-180 < calc.lng /\ calc.lng <= 180)

\* C20, amended: the sub-solar longitude lies in the closed range
\* [-180, 180], it differs from alpha - gmstDeg by a multiple of 360, and
\* -180 is returned as it is when alpha - gmstDeg is -180.
C20_ClosedRange ==
    calc.fn = "sun" =>
        /\ -180 <= calc.lng /\ calc.lng <= 180
        /\ (calc.lng - (calc.alpha - calc.gmstDeg)) % 360 = 0
        /\ calc.alpha - calc.gmstDeg = -180 => calc.lng = -180

\* A difference below -180 that is wrapped, and one that is returned as -180.
C20_Witness ==
    /\ calc.fn = "sun"
    /\ calc.alpha - calc.gmstDeg = -180
    /\ calc.lng = -180
    /\ SubSolarLng(-90, 180) = 90
    /\ SubSolarLng(-180, 359) = -179

\* ------------------------------------------ getTerminatorPath, getCirclePath

Abs(a) == IF a < 0 THEN -a ELSE a

\* Math.sin of an angle of the first quadrant, in thousandths of a degree:
\* the table, linear between two entries.
SinOfQuadrant(q) ==
    LET d == q \div 1000
        f == q % 1000
    IN  IF d >= 90 THEN One
        ELSE SinTable[d + 1] + ((SinTable[d + 2] - SinTable[d + 1]) * f) \div 1000

\* Math.sin and Math.cos of any angle, in thousandths of a degree
SinM(x) ==
    LET q == x % 360000
    IN  IF q <= 90000 THEN SinOfQuadrant(q)
        ELSE IF q <= 180000 THEN SinOfQuadrant(180000 - q)
        ELSE IF q <= 270000 THEN -SinOfQuadrant(q - 180000)
        ELSE -SinOfQuadrant(360000 - q)

CosM(x) == SinM(x + 90000)

\* What IEEE doubles leave of a sine that is 0 in exact arithmetic, in units
\* of cos(90 * rad) = 6.12e-17: sin(0) = 0, sin(180 * rad) = 1.22e-16,
\* sin(360 * rad) = -2.45e-16.
SinResidual(bearing) ==
    IF bearing = 180 THEN 2 ELSE IF bearing = 360 THEN -4 ELSE 0

\* The product of two fixed-point numbers
Mul(a, b) ==
    LET m == Abs(a)
        n == Abs(b)
        prod == (m * (n \div 1000)) \div 100 + (m * (n % 1000)) \div One
    IN  IF (a < 0) = (b < 0) THEN prod ELSE -prod

\* Math.sqrt of an integer below 15000 squared, rounded down
RECURSIVE Root(_, _, _)
Root(v, lo, hi) ==
    IF hi - lo <= 1 THEN lo
    ELSE LET mid == (lo + hi) \div 2
         IN  IF mid * mid <= v THEN Root(v, mid, hi) ELSE Root(v, lo, mid)

\* Math.atan2(y, x) for y, x not both 0, in thousandths of a degree
Atan2OfNonZero(y, x) ==
    LET ys == Abs(y) \div 10
        xs == Abs(x) \div 10
        r == Root(xs * xs + ys * ys, 0, 15000)
        ratio(n) == IF (n * One) \div r > One THEN One ELSE (n * One) \div r
        theta == IF r = 0 THEN 0
                 ELSE IF ys <= xs THEN AsinOfFraction(ratio(ys))
                 ELSE 90000 - AsinOfFraction(ratio(xs))
        angle == IF x >= 0 THEN theta ELSE 180000 - theta
    IN  IF y >= 0 THEN angle ELSE -angle

\* Math.atan2(y, x), yRes and xRes being what is left of y and x when they
\* are 0 at the resolution of the model: the sign of a vanishing y decides
\* between +180 and -180 on the negative x axis.
Atan2(y, x, yRes, xRes) ==
    IF y = 0 /\ x = 0 THEN Atan2OfNonZero(yRes * 10000, xRes * 10000)
    ELSE IF y = 0 THEN (IF x > 0 THEN 0
                        ELSE IF yRes < 0 THEN -180000 ELSE 180000)
    ELSE Atan2OfNonZero(y, x)

\* One iteration of the loop of getCirclePath: the vertex at a bearing.
\* Arguments in degrees, the vertex in thousandths of a degree.
CircleVertex(centerLat, centerLng, radiusDeg, bearing) ==
    LET dist == radiusDeg * 1000
        lat1 == centerLat * 1000
        lon1 == centerLng * 1000
        brng == bearing * 1000
        sum == Mul(SinM(lat1), CosM(dist))
               + Mul(Mul(CosM(lat1), SinM(dist)), CosM(brng))
        arg == IF sum > One THEN One ELSE IF sum < -One THEN -One ELSE sum
        lat2 == Asin(arg)
        y == Mul(Mul(SinM(brng), SinM(dist)), CosM(lat1))
        x == CosM(dist) - Mul(SinM(lat1), SinM(lat2))
        lon2 == lon1 + Atan2(y, x, SinResidual(bearing), 1)
    IN  [lat |-> lat2, lng |-> lon2]

\* for (let i = 0; i <= 360; i += 5)
InLoop_Exclusive(i) == i < 360

InLoop(i) == i <= 360

\* The values i takes in the loop, in order.
RECURSIVE CircleLoop(_, _)
CircleLoop(i, bearings) ==
    IF InLoop(i) THEN CircleLoop(i + 5, Append(bearings, i)) ELSE bearings

\* path.push({ lat, lng }) at each of them
getCirclePath(centerLat, centerLng, radiusDeg) ==
    LET bearings == CircleLoop(0, <<>>)
    IN  [k \in 1..Len(bearings) |->
            CircleVertex(centerLat, centerLng, radiusDeg, bearings[k])]

getTerminatorPath(sunLat, sunLng) ==
    LET nightLat == -sunLat
        nightLng == IF sunLng + 180 > 180 THEN sunLng + 180 - 360
                    ELSE sunLng + 180
    IN  getCirclePath(nightLat, nightLng, 90)

\* Sun positions: the declination and the sub-solar longitude, in degrees.
SunLats == -23..23
SunLngs == {-180, -135, -90, -45, 0, 45, 90, 135, 180}

InitTerminator ==
    /\ SearchEntered(1, 1, MaxSteps)
    /\ PredictIdle
    /\ CalcIdle

CallTerminator ==
    /\ CalcIdle
    /\ \E sunLat \in SunLats, sunLng \in SunLngs :
          calc' = [fn |-> "terminator", sunLat |-> sunLat, sunLng |-> sunLng,
                   path |-> getTerminatorPath(sunLat, sunLng)]
    /\ CalcFrame

NextTerminator == CallTerminator

SpecTerminator == InitTerminator /\ [][NextTerminator]_vars

\* ---------------------------------------------- properties of the terminator

\* Equal within a tenth of a degree.
Near(a, b) == Abs(a - b) <= 100

\* The cosine of the great-circle distance between a vertex and the point
\* (lat, lng), both in thousandths of a degree.
CosDistance(v, lat, lng) ==
    Mul(SinM(lat), SinM(v.lat))
    + Mul(Mul(CosM(lat), CosM(v.lat)), CosM(v.lng - lng))

\* The vertex is 90 degrees away from the antipode of the sub-solar point.
QuarterTurnFromAntipode(v) ==
    Abs(CosDistance(v, -calc.sunLat * 1000, (calc.sunLng + 180) * 1000)) <= 200

\* The same pair of coordinates.
SameCoordinates(v, w) == Near(v.lat, w.lat) /\ Near(v.lng, w.lng)

\* The same point of the sphere: longitudes are equal modulo 360 degrees,
\* and at a pole any longitude is the same point.
SamePoint(v, w) ==
    /\ Near(v.lat, w.lat)
    /\ \/ Near(Abs(v.lat), 90000)
       \/ Near((v.lng - w.lng) % 360000, 0)
       \/ Near((v.lng - w.lng) % 360000, 360000)

Ring == calc.fn = "terminator"

\* C19 as stated: 73 vertices, the first and the last the same coordinates,
\* every vertex 90 degrees from the antipode of the sub-solar point.
C19_ClosedRing ==
    Ring =>
        /\ Len(calc.path) = 73
        /\ SameCoordinates(calc.path[1], calc.path[Len(calc.path)])
        /\ \A k \in 1..Len(calc.path) : QuarterTurnFromAntipode(calc.path[k])

\* C19, amended: 73 vertices, the first and the last the same point of the
\* sphere (their longitudes may differ by 360 degrees), every vertex 90
\* degrees from the antipode of the sub-solar point.
C19_ClosedOnSphere ==
    Ring =>
        /\ Len(calc.path) = 73
        /\ SamePoint(calc.path[1], calc.path[Len(calc.path)])
        /\ \A k \in 1..Len(calc.path) : QuarterTurnFromAntipode(calc.path[k])

\* The sun south of the equator: the ring closes a whole turn of longitude
\* away from where it started.
C19_Witness ==
    /\ Ring
    /\ calc.sunLat < 0
    /\ Len(calc.path) = 73
    /\ calc.path[1].lng - calc.path[73].lng = 360000
    /\ calc.path[1].lat = calc.path[73].lat

\* ---------------------------------------------------- updateSolarAngleLayer

\* The latitudes of the scan, for (lat = -90; lat <= 90; lat += 0.5), in
\* half degrees
ScanLats == -180..180

\* sunPos.lat, in thousandths of a degree: quarter degrees within the
\* obliquity of the ecliptic
Declinations == {250 * q : q \in -94..94}

\* const H_noon = 0; const H_1030 = -22.5, in thousandths of a degree
H_noon == 0
H_1030 == -22500

\* const minEl_deg = 30, in thousandths of a degree
minEl == 30000

\* sinEl >= sinMinEl at latitude lat (half degrees) and hour angle H
GoodAt(lat, declination, H) ==
    LET sinLat == SinM(lat * 500)
        cosLat == CosM(lat * 500)
        sinEl == Mul(sinLat, SinM(declination))
                 + Mul(Mul(cosLat, CosM(declination)), CosM(H))
    IN  sinEl >= SinM(minEl)

\* One scan: start is the first good latitude, end the last one; null
\* when there is none.
GoodRange(declination, H) ==
    LET good == {lat \in ScanLats : GoodAt(lat, declination, H)}
    IN  IF good = {} THEN [null |-> TRUE, start |-> 0, end |-> 0]
        ELSE [null |-> FALSE,
              start |-> CHOOSE lat \in good : \A other \in good : lat <= other,
              end |-> CHOOSE lat \in good : \A other \in good : other <= lat]

\* createBoxPath(latMin, latMax), by its two latitudes (half degrees)
createBoxPath(latMin, latMax) == [latMin |-> latMin, latMax |-> latMax]

\* Red zone: outside the noon-good range
RedPaths(noon) ==
    IF ~noon.null
    THEN (IF noon.start > -180 THEN <<createBoxPath(-180, noon.start)>> ELSE <<>>)
         \o (IF noon.end < 180 THEN <<createBoxPath(noon.end, 180)>> ELSE <<>>)
    ELSE <<createBoxPath(-180, 180)>>

\* Yellow zone: inside the noon-good range, outside the 10:30-good range
YellowPaths_WholeNoonRange(noon, ten30) ==
    IF ~noon.null /\ ~ten30.null
    THEN <<createBoxPath(noon.start, noon.end)>>
    ELSE <<>>

YellowPaths(noon, ten30) ==
    IF ~noon.null /\ ~ten30.null
    THEN (IF ten30.start > noon.start
          THEN <<createBoxPath(noon.start, ten30.start)>> ELSE <<>>)
         \o (IF noon.end > ten30.end
             THEN <<createBoxPath(ten30.end, noon.end)>> ELSE <<>>)
    ELSE <<>>

InitSolar ==
    /\ SearchEntered(1, 1, MaxSteps)
    /\ PredictIdle
    /\ CalcIdle

CallSolarAngleLayer ==
    /\ CalcIdle
    /\ \E declination \in Declinations :
          LET noon == GoodRange(declination, H_noon)
              ten30 == GoodRange(declination, H_1030)
          IN  calc' = [fn |-> "solar", declination |-> declination,
                       redPaths |-> RedPaths(noon),
                       yellowPaths |-> YellowPaths(noon, ten30)]
    /\ CalcFrame

NextSolar == CallSolarAngleLayer

SpecSolar == InitSolar /\ [][NextSolar]_vars

\* ------------------------------------------- properties of the solar layers

\* The edge of a box that faces the sub-solar latitude: the line it shares
\* with the next better zone.
InnerEdge(box) ==
    IF Abs(box.latMin * 500 - calc.declination)
          < Abs(box.latMax * 500 - calc.declination)
    THEN box.latMin ELSE box.latMax

\* A scanned latitude is in a band when a box of the band holds it, its
\* inner edge excepted.
InBand(paths, lat) ==
    \E i \in 1..Len(paths) :
        /\ paths[i].latMin <= lat
        /\ lat <= paths[i].latMax
        /\ lat /= InnerEdge(paths[i])

C22_RegistryFixed ==
    [][/\ DOMAIN satrecs' = Sats
       /\ \A s \in Sats : satrecs[s] => satrecs'[s]]_vars

\* The file held an unknown catalog number and one of the registry.
C22_Witness ==
    /\ loadpc = "running"
    /\ 25544 \in feed
    /\ satrecs = [s \in Sats |-> CatNr[s] \in feed]
    /\ \E s \in Sats : satrecs[s]
    /\ \E s \in Sats : ~satrecs[s]
    /\ DOMAIN satrecs = Sats

\* C30: every propagation is done for a satellite that has a satrec, be it
\* by updatePositions or by a prediction request, and a satellite for which
\* the request did not call predictPasses contributes the empty list.
C30_NoNullPropagation ==
    /\ \A e \in propagated : e.satrec
    /\ \A s \in DOMAIN results :
          (/\ results[s] /= Pending
           /\ \A e \in propagated : ~(e.by = "predictPasses" /\ e.sat = s))
          => results[s] = Fulfilled(<<>>)

\* A request searched one satellite and skipped the other, whose satrec
\* arrived afterwards and was then used by updatePositions.
C30_Witness ==
    /\ hpc = "displayed"
    /\ \E s, other \in Sats :
          /\ [by |-> "predictPasses", sat |-> s, satrec |-> TRUE] \in propagated
          /\ [by |-> "predictPasses", sat |-> other, satrec |-> TRUE]
                \notin propagated
          /\ [by |-> "updatePositions", sat |-> other, satrec |-> TRUE]
                \in propagated
          /\ results[other] = Fulfilled(<<>>)

\* ------------------------------------------- properties of the search frame

\* C23: no step of predictPasses or findBestPassDetails changes the
\* registry, the satrec of any satellite or the observer location; the
\* steps write the locals of the search only.
C23_SearchFrame ==
    [][UNCHANGED <<satrecs, coords, registryVars, hpc, results, shown>>]_vars

\* A search that refined a window and returned a pass, with the registry
\* and the observer still in place.
C23_Witness ==
    /\ pc = "done"
    /\ Len(passes) > 0
    /\ Len(calls) > 0
    /\ coords = "ok"
    /\ satrecs = [s \in Sats |-> TRUE]

\* C24: the maxElevation of a pass that predictPasses returns is the largest
\* elevation among all the fine samples of its window, not the elevation of
\* the sample that has the smallest off-nadir angle.
C24_MaxElevationIsPeak ==
    [][Len(passes') > Len(passes) => Last(passes').maxElevation = peak]_vars

\* ------------------------------------------------- properties of the panel

\* C25: whenever handlePrediction calls predictPasses, maxOffNadir is an
\* integer of 1..90, whatever input, blur, Enter and click events came
\* before, Enter on an empty field or on 0 before any blur included.
C25_ConstraintInRange == \A m \in invokedWith : m \in 1..90

\* ------------------------------------------------ properties of termination

\* C26: every call of predictPasses with a finite positive horizon
\* returns; coarse samples are taken at now + k * 60 s, each k at most
\* once and in increasing order, k below maxDays * 1440; and a fine loop
\* advances by 5 s at each sample and stops after its window's end.
C26_Terminates ==
    /\ <>(pc = "done")
    /\ [](t \in {k * StepMs : k \in 0..horizon})
    /\ [][(pc = "coarse" /\ pc' = "coarse") => (t < maxTime /\ t' = t + StepMs)]_vars
    /\ [][(pc = "coarse" /\ pc' = "fine") => t' = t]_vars
    /\ [][(pc = "fine" /\ pc' = "coarse") => t' = t + StepMs]_vars
    /\ [][(pc = "fine" /\ pc' = "fine") => (ft <= endMs /\ ft' = ft + fineStepMs)]_vars
    /\ [](pc = "fine" => (startMs <= ft /\ ft <= endMs + fineStepMs))

\* The whole horizon was scanned, a window refined on the way, and the
\* call returned.
C26_Witness ==
    /\ pc = "done"
    /\ t = maxTime
    /\ horizon > 0
    /\ Len(calls) > 0

\* ------------------------------------------------ properties of the ranking

\* The passes the scans of all satellites accept within the horizon.
Accepted == UNION {Range(found[s].value) : s \in Sats}

\* C27: the list shown holds the five earliest accepted passes of all
\* satellites within the horizon, or all of them if there are fewer: no
\* pass is shown while an earlier accepted pass is left out, although each
\* search returns at most five passes before they are pooled.
C27_FiveEarliest ==
    hpc = "displayed" =>
        /\ Range(shown) \subseteq Accepted
        /\ Len(shown) = (IF Cardinality(Accepted) < 5
                         THEN Cardinality(Accepted) ELSE 5)
        /\ Cardinality(Range(shown)) = Len(shown)
        /\ \A p \in Range(shown) : \A q \in Accepted \ Range(shown) :
              p.startTime <= q.startTime

\* A satellite had six accepted passes, of which the search returned five,
\* and the list shown has passes of both satellites.
C27_Witness ==
    /\ hpc = "displayed"
    /\ \E s \in Sats : Len(found[s].value) > searchLimit
    /\ Len(shown) = 5
    /\ \A s \in Sats : \E p \in Range(shown) : p.satName = s

\* -------------------------------------- properties of overlapping requests

\* The rows a request has to show: one per pass of its list, in order.
RowsOf(r) == [i \in 1..reqs[r].n |-> [req |-> r, pass |-> i]]

\* What a row shows of its origin.
Origin(row) == [req |-> row.req, pass |-> row.pass]

AllDone ==
    /\ DOMAIN reqs = Requests
    /\ \A r \in Requests : reqs[r].pc = "done"

\* C28: with two requests that overlap, the table never holds rows of two
\* different requests, and once both are over it holds exactly the rows of
\* the request made last.
C28_OneRequestInTable ==
    /\ \A i, j \in DOMAIN tbody : tbody[i].req = tbody[j].req
    /\ AllDone =>
          [i \in DOMAIN tbody |-> Origin(tbody[i])] = RowsOf(Cardinality(Requests))

\* C29: every row is made with the weather of the coordinates and in the
\* time zone of the request that produced it; a later request that
\* overwrites window.lastObserverCoords and window.lastObserverTimeZone
\* does not change what an earlier request uses for its rows.
C29_OwnObserver ==
    \A i \in DOMAIN tbody :
        /\ tbody[i].coords = reqs[tbody[i].req].place
        /\ tbody[i].zone = reqs[tbody[i].req].zone

====
